---- MODULE Spec2Model ----
(***************************************************************************)
(* tools/convert-icon.py: convert_to_ico(source, target) and the script    *)
(* entry point.  The file system is a map from paths to file contents; a   *)
(* call is a sequence of steps (existence check, Image.open, the load,     *)
(* open-for-write, frame writes and close inside Image.save, print).  The  *)
(* image library is modelled by the outcomes its calls can produce.        *)
(***************************************************************************)
EXTENDS Integers, Sequences, FiniteSets

VARIABLES
  fs,          \* file system: path -> content
  pc,          \* position of the running call / process
  caller,      \* "main" (script run directly) or "harness" (a caller of the function)
  source,      \* first argument of the running call
  target,      \* second argument of the running call
  img,         \* the opened image (content behind the handle held by Image.open)
  out,         \* lines printed by the running call, in order
  failure,     \* the error that propagated out of the running call, "none" if none
  created,     \* Image.save: target did not exist when it was opened for writing
  cleanup,     \* library build: save removes a file it created when the encoder fails
  exitStatus,  \* <<>> while the process runs, <<code>> once it has exited
  calls,       \* number of calls of convert_to_ico started
  fs0,         \* file system when the running call started
  reads,       \* paths the running call opened for reading
  writes,      \* paths the running call opened for writing
  raced,       \* a concurrent process deleted source after the check, before the open
  prev         \* the previous finished call: arguments, source content, outcome, result

vars == <<fs, pc, caller, source, target, img, out, failure, created, cleanup,
          exitStatus, calls, fs0, reads, writes, raced, prev>>

\* number of calls a harness makes in one run
MaxCalls == 2

MainSource == "icon-512.png"
MainTarget == "app.ico"
Paths == {MainSource, MainTarget}

\* sizes=[...] passed to img.save
Sizes == << <<256, 256>>, <<128, 128>>, <<64, 64>>, <<48, 48>>, <<32, 32>>, <<16, 16>> >>

----------------------------------------------------------------------------
\* File contents

File(kind, w, h, frames) == [kind |-> kind, w |-> w, h |-> h, frames |-> frames]

Absent == File("absent", 0, 0, <<>>)
\* bytes no image plugin identifies
Garbage == File("garbage", 0, 0, <<>>)
\* a raster image of w x h pixels
Raster(d) == File("raster", d[1], d[2], <<>>)
\* a valid header of a w x h image followed by damaged or missing pixel data
Damaged(d) == File("damaged", d[1], d[2], <<>>)
\* a complete icon container: its frames, and the size of the image they were made from
Ico(d, frames) == File("ico", d[1], d[2], frames)
\* a target opened for writing and not yet closed: the frames written so far
Partial(d, frames) == File("partial", d[1], d[2], frames)

\* variant: the existence check always passes
Exists_Always(c) == TRUE

\* os.path.exists
Exists(c) == c.kind # "absent"

Abs(x) == IF x < 0 THEN 0 - x ELSE x
Max2(a, b) == IF a >= b THEN a ELSE b

\* Image.thumbnail's size for an image of w x h asked to fit in s x s,
\* aspect ratio preserved; the rounding picks floor or ceiling, whichever
\* keeps the ratio closer, and never goes below one pixel
Thumbnail(w, h, s) ==
  IF s >= w /\ s >= h THEN <<w, h>>
  ELSE IF h >= w
    THEN LET f == (s * w) \div h
             c == IF (s * w) % h = 0 THEN f ELSE f + 1
             n == IF Abs(w * s - f * h) <= Abs(w * s - c * h) THEN f ELSE c
         IN <<Max2(n, 1), s>>
    ELSE LET f == (s * h) \div w
             c == IF (s * h) % w = 0 THEN f ELSE f + 1
             n == IF f = 0 THEN f
                  ELSE IF Abs(w * f - s * h) * c <= Abs(w * c - s * h) * f THEN f ELSE c
         IN <<s, Max2(n, 1)>>

\* variant: the encoder keeps every requested size
Fits_NoSkip(size, w, h) == TRUE

\* the ICO encoder skips a requested size larger than the image
Fits(size, w, h) == ~(size[1] > w \/ size[2] > h \/ size[1] > 256 \/ size[2] > 256)

\* the requested sizes the encoder keeps for an image of w x h
KeptSizes(w, h) == SelectSeq(Sizes, LAMBDA size : Fits(size, w, h))

\* the frames img.save(format='ICO', sizes=Sizes) writes for an image of w x h
Frames(w, h) ==
  LET kept == KeptSizes(w, h)
  IN [i \in 1..Len(kept) |-> Thumbnail(w, h, kept[i][1])]

\* the complete icon file made from an image of w x h
Encode(w, h) == Ico(<<w, h>>, Frames(w, h))

Area(d) == d[1] * d[2]
Range(s) == {s[i] : i \in 1..Len(s)}

\* the size an icon file opens with: its largest frame
LargestFrame(frames) ==
  CHOOSE d \in Range(frames) : \A e \in Range(frames) : Area(e) <= Area(d)

\* what Image.open and the later load can do with a file:
\* "ok", "open_error" (raised by Image.open) or "load_error" (raised by the load)
DecodeOutcomes(c) ==
  CASE c.kind = "raster"  -> {"ok"}
    [] c.kind = "ico"     -> IF c.frames = <<>> THEN {"open_error"} ELSE {"ok"}
    [] c.kind = "damaged" -> {"load_error"}
    [] c.kind = "partial" -> {"open_error", "load_error"}
    [] OTHER              -> {"open_error"}

\* the size of the decoded image
DecodedSize(c) ==
  IF c.kind = "ico" THEN LargestFrame(c.frames) ELSE <<c.w, c.h>>

\* print(f"Source file {source} not found.")
NotFoundMsg(s) == [text |-> "not found", paths |-> <<s>>]
\* print(f"Created {target} from {source}")
CreatedMsg(t, s) == [text |-> "created", paths |-> <<t, s>>]

\* variant: the save writes elsewhere and leaves the old content in place meanwhile
OpenForWrite_KeepOld(old, d) == old

\* builtins.open(target, "w+b"): the file is truncated
OpenForWrite(old, d) == Partial(d, <<>>)

NoCall == [source |-> MainSource, target |-> MainTarget, input |-> Absent,
           outcome |-> "none", failure |-> "none", result |-> Absent]

----------------------------------------------------------------------------
\* Initial states

ImageSizes == {<<512, 512>>, <<256, 256>>, <<100, 100>>, <<512, 256>>, <<10, 10>>}

InitialContents ==
  {Absent, Garbage, Damaged(<<512, 512>>), Encode(512, 512)}
    \cup {Raster(d) : d \in ImageSizes}

Init ==
  /\ fs \in [Paths -> InitialContents]
  /\ pc = "idle"
  /\ caller \in {"main", "harness"}
  /\ source = MainSource
  /\ target = MainTarget
  /\ img = Absent
  /\ out = <<>>
  /\ failure = "none"
  /\ created = FALSE
  /\ cleanup \in BOOLEAN
  /\ exitStatus = <<>>
  /\ calls = 0
  /\ fs0 = fs
  /\ reads = {}
  /\ writes = {}
  /\ raced = FALSE
  /\ prev = NoCall

----------------------------------------------------------------------------
\* Steps

\* entering convert_to_ico(s, t)
Enter(s, t) ==
  /\ pc' = "check"
  /\ source' = s
  /\ target' = t
  /\ img' = Absent
  /\ out' = <<>>
  /\ failure' = "none"
  /\ created' = FALSE
  /\ calls' = calls + 1
  /\ fs0' = fs
  /\ reads' = {}
  /\ writes' = {}
  /\ raced' = FALSE
  /\ UNCHANGED <<fs, caller, cleanup, exitStatus, prev>>

\* variant: the literals are passed in the wrong order
MainCall_Swapped ==
  /\ caller = "main"
  /\ pc = "idle"
  /\ calls = 0
  /\ Enter(MainTarget, MainSource)

\* if __name__ == "__main__": convert_to_ico('icon-512.png', 'app.ico')
MainCall ==
  /\ caller = "main"
  /\ pc = "idle"
  /\ calls = 0
  /\ Enter(MainSource, MainTarget)

\* any other caller: convert_to_ico(s, t)
Call ==
  /\ caller = "harness"
  /\ pc = "idle"
  /\ calls < MaxCalls
  /\ \E s \in Paths, t \in Paths : Enter(s, t)

\* variant: the message is printed but the return is missing
CheckMissing_NoReturn ==
  /\ pc = "check"
  /\ ~Exists(fs[source])
  /\ out' = Append(out, NotFoundMsg(source))
  /\ pc' = "open"
  /\ UNCHANGED <<fs, caller, source, target, img, failure, created, cleanup,
                 exitStatus, calls, fs0, reads, writes, raced, prev>>

\* if not os.path.exists(source): print(...); return
CheckMissing ==
  /\ pc = "check"
  /\ ~Exists(fs[source])
  /\ out' = Append(out, NotFoundMsg(source))
  /\ pc' = "returned"
  /\ UNCHANGED <<fs, caller, source, target, img, failure, created, cleanup,
                 exitStatus, calls, fs0, reads, writes, raced, prev>>

\* the check passes
CheckExists ==
  /\ pc = "check"
  /\ Exists(fs[source])
  /\ pc' = "open"
  /\ UNCHANGED <<fs, caller, source, target, img, out, failure, created, cleanup,
                 exitStatus, calls, fs0, reads, writes, raced, prev>>

\* variant: a source that is gone at the open is reported like a missing source
Open_NotFoundHandled ==
  /\ pc = "open"
  /\ reads' = reads \cup {source}
  /\ IF ~Exists(fs[source])
       THEN /\ pc' = "returned"
            /\ out' = Append(out, NotFoundMsg(source))
            /\ UNCHANGED <<failure, img>>
       ELSE /\ out' = out
            /\ \E r \in DecodeOutcomes(fs[source]) :
                 IF r = "open_error"
                   THEN /\ pc' = "raised"
                        /\ failure' = "open_error"
                        /\ img' = img
                   ELSE /\ pc' = "load"
                        /\ failure' = failure
                        /\ img' = fs[source]
  /\ UNCHANGED <<fs, caller, source, target, created, cleanup,
                 exitStatus, calls, fs0, writes, raced, prev>>

\* img = Image.open(source): opens the file and identifies it by its header
Open ==
  /\ pc = "open"
  /\ reads' = reads \cup {source}
  /\ \E r \in DecodeOutcomes(fs[source]) :
       IF r = "open_error"
         THEN /\ pc' = "raised"
              /\ failure' = "open_error"
              /\ img' = img
         ELSE /\ pc' = "load"
              /\ failure' = failure
              /\ img' = fs[source]
  /\ UNCHANGED <<fs, caller, source, target, out, created, cleanup,
                 exitStatus, calls, fs0, writes, raced, prev>>

\* variant: the save does not load the pixel data before it opens target
SaveLoad_Skipped ==
  /\ pc = "load"
  /\ pc' = "create"
  /\ UNCHANGED <<fs, caller, source, target, img, out, failure, created, cleanup,
                 exitStatus, calls, fs0, reads, writes, raced, prev>>

\* img.save(...), first step: the pixel data is loaded before target is touched
SaveLoad ==
  /\ pc = "load"
  /\ \E r \in DecodeOutcomes(img) \ {"open_error"} :
       IF r = "load_error"
         THEN /\ pc' = "raised"
              /\ failure' = "load_error"
         ELSE /\ pc' = "create"
              /\ failure' = failure
  /\ UNCHANGED <<fs, caller, source, target, img, out, created, cleanup,
                 exitStatus, calls, fs0, reads, writes, raced, prev>>

\* variant: the save is given source where target belongs
SaveCreate_WrongFile ==
  /\ pc = "create"
  /\ created' = ~Exists(fs[source])
  /\ fs' = [fs EXCEPT ![source] = OpenForWrite(fs[source], DecodedSize(img))]
  /\ writes' = writes \cup {source}
  /\ pc' = "write"
  /\ UNCHANGED <<caller, source, target, img, out, failure, cleanup,
                 exitStatus, calls, fs0, reads, raced, prev>>

\* img.save(...): target is opened "w+b"
SaveCreate ==
  /\ pc = "create"
  /\ created' = ~Exists(fs[target])
  /\ fs' = [fs EXCEPT ![target] = OpenForWrite(fs[target], DecodedSize(img))]
  /\ writes' = writes \cup {target}
  /\ pc' = "write"
  /\ UNCHANGED <<caller, source, target, img, out, failure, cleanup,
                 exitStatus, calls, fs0, reads, raced, prev>>

\* img.save(...): target cannot be opened for writing (permissions, no such directory)
SaveCreateFail ==
  /\ pc = "create"
  /\ pc' = "raised"
  /\ failure' = "create_error"
  /\ UNCHANGED <<fs, caller, source, target, img, out, created, cleanup,
                 exitStatus, calls, fs0, reads, writes, raced, prev>>

\* the frames the running save has to write
Plan == Frames(DecodedSize(img)[1], DecodedSize(img)[2])

\* img.save(...): the encoder writes the next frame
SaveWrite ==
  /\ pc = "write"
  /\ Len(fs[target].frames) < Len(Plan)
  /\ fs' = [fs EXCEPT ![target].frames = Append(@, Plan[Len(@) + 1])]
  /\ UNCHANGED <<pc, caller, source, target, img, out, failure, created, cleanup,
                 exitStatus, calls, fs0, reads, writes, raced, prev>>

\* variant: the failure is swallowed and the call carries on to the print
SaveWriteFail_Swallowed ==
  /\ pc = "write"
  /\ fs' = [fs EXCEPT ![target] = IF cleanup /\ created THEN Absent ELSE @]
  /\ pc' = "print"
  /\ failure' = "write_error"
  /\ UNCHANGED <<caller, source, target, img, out, created, cleanup,
                 exitStatus, calls, fs0, reads, writes, raced, prev>>

\* img.save(...): the encoder or a write fails; a file the save created is
\* removed by builds that clean up, otherwise what was written stays
SaveWriteFail ==
  /\ pc = "write"
  /\ fs' = [fs EXCEPT ![target] = IF cleanup /\ created THEN Absent ELSE @]
  /\ pc' = "raised"
  /\ failure' = "write_error"
  /\ UNCHANGED <<caller, source, target, img, out, created, cleanup,
                 exitStatus, calls, fs0, reads, writes, raced, prev>>

\* variant: the new frames are added after what target held before
SaveClose_Appends ==
  /\ pc = "write"
  /\ Len(fs[target].frames) = Len(Plan)
  /\ fs' = [fs EXCEPT ![target] = Ico(<<@.w, @.h>>, fs0[target].frames \o @.frames)]
  /\ pc' = "print"
  /\ UNCHANGED <<caller, source, target, img, out, failure, created, cleanup,
                 exitStatus, calls, fs0, reads, writes, raced, prev>>

\* img.save(...): every frame is written and the file is closed
SaveClose ==
  /\ pc = "write"
  /\ Len(fs[target].frames) = Len(Plan)
  /\ fs' = [fs EXCEPT ![target] = Ico(<<@.w, @.h>>, @.frames)]
  /\ pc' = "print"
  /\ UNCHANGED <<caller, source, target, img, out, failure, created, cleanup,
                 exitStatus, calls, fs0, reads, writes, raced, prev>>

\* print(f"Created {target} from {source}")
PrintCreated ==
  /\ pc = "print"
  /\ out' = Append(out, CreatedMsg(target, source))
  /\ pc' = "returned"
  /\ UNCHANGED <<fs, caller, source, target, img, failure, created, cleanup,
                 exitStatus, calls, fs0, reads, writes, raced, prev>>

\* how the running call ended
Outcome ==
  IF pc = "raised" THEN "raised"
  ELSE IF out = <<NotFoundMsg(source)>> THEN "not found"
  ELSE IF out = <<CreatedMsg(target, source)>> THEN "created"
  ELSE "other"

\* the call is over and control is back in the harness
Finish ==
  /\ caller = "harness"
  /\ pc \in {"returned", "raised"}
  /\ prev' = [source |-> source, target |-> target, input |-> fs0[source],
              outcome |-> Outcome, failure |-> failure, result |-> fs[target]]
  /\ pc' = "idle"
  /\ UNCHANGED <<fs, caller, source, target, img, out, failure, created, cleanup,
                 exitStatus, calls, fs0, reads, writes, raced>>

\* the script ends: status 0 after a normal return, 1 after an uncaught exception
Exit ==
  /\ caller = "main"
  /\ pc \in {"returned", "raised"}
  /\ exitStatus' = IF pc = "returned" THEN <<0>> ELSE <<1>>
  /\ pc' = "exited"
  /\ UNCHANGED <<fs, caller, source, target, img, out, failure, created, cleanup,
                 calls, fs0, reads, writes, raced, prev>>

\* another process deletes source between the existence check and the open
DeleteSource ==
  /\ pc = "open"
  /\ Exists(fs[source])
  /\ fs' = [fs EXCEPT ![source] = Absent]
  /\ raced' = TRUE
  /\ UNCHANGED <<pc, caller, source, target, img, out, failure, created, cleanup,
                 exitStatus, calls, fs0, reads, writes, prev>>

Next ==
  \/ MainCall
  \/ Call
  \/ CheckMissing
  \/ CheckExists
  \/ Open
  \/ SaveLoad
  \/ SaveCreate
  \/ SaveCreateFail
  \/ SaveWrite
  \/ SaveWriteFail
  \/ SaveClose
  \/ PrintCreated
  \/ Finish
  \/ Exit

\* the program alone, as the script runs it: one thread, nothing else touching the files
Spec == Init /\ [][Next]_vars

NextRace == Next \/ DeleteSource

\* the program with a concurrent process that may delete source after the check
SpecRace == Init /\ [][NextRace]_vars

----------------------------------------------------------------------------
\* Properties

\* a call has been made and is over (its variables stay as it left them)
Over == calls > 0 /\ pc \in {"returned", "raised", "idle", "exited"}

\* the running call ended by returning, not by raising
ReturnedNormally == Over /\ failure = "none"

\* the complete icon the running call is making
NewIcon == Encode(DecodedSize(img)[1], DecodedSize(img)[2])

\* C1: when source does not exist, the call opens nothing for reading or
\* writing, leaves the file system as it was, prints one message that holds
\* the source path, and returns normally
C1_MissingSource ==
  (calls > 0 /\ fs0[source] = Absent) =>
    /\ reads = {}
    /\ writes = {}
    /\ fs = fs0
    /\ failure = "none"
    /\ pc \in {"check", "returned", "idle", "exited"}
    /\ pc # "check" =>
         /\ Len(out) = 1
         /\ out[1].text = "not found"
         /\ source \in Range(out[1].paths)

C1_Witness ==
  /\ pc = "returned"
  /\ fs0[source] = Absent
  /\ out = <<NotFoundMsg(source)>>
  /\ Exists(fs0[target])

\* the requested sizes no wider and no higher than a w x h image
FittingSizes(w, h) == {s \in Range(Sizes) : s[1] <= w /\ s[2] <= h}

\* frame d is an image fitted into the box s: inside it, touching one side
FittedIn(d, s) == d[1] <= s[1] /\ d[2] <= s[2] /\ (d[1] = s[1] \/ d[2] = s[2])

Corrupt(c) ==
  \/ c.kind \in {"garbage", "damaged", "partial"}
  \/ c.kind = "ico" /\ c.frames = <<>>

\* C3: when source exists but is corrupt or not an image, the call raises:
\* it never returns normally, prints nothing, and never opens target for
\* writing, so no empty or invalid file is produced there
C3_CorruptSourceRaises ==
  (calls > 0 /\ Corrupt(fs0[source])) =>
    /\ pc \in {"check", "open", "load", "raised", "idle", "exited"}
    /\ out = <<>>
    /\ writes = {}
    /\ fs = fs0
    /\ Over => failure \in {"open_error", "load_error"}
    /\ pc = "exited" => exitStatus = <<1>>

C3_Witness ==
  /\ pc = "raised"
  /\ fs0[source].kind = "damaged"
  /\ failure = "load_error"
  /\ ~Exists(fs[target])

\* C4: a second call with the same arguments and the source as it was before
\* the first leaves in target exactly what the first call left there, whatever
\* target held before the first call (no write to target failing in either
\* call); after two successful calls that content is the icon of the source
C4_Idempotent ==
  ( /\ pc \in {"returned", "raised"}
    /\ failure \notin {"create_error", "write_error"}
    /\ prev.outcome # "none"
    /\ prev.failure \notin {"create_error", "write_error"}
    /\ prev.source = source
    /\ prev.target = target
    /\ prev.input = fs0[source] ) =>
    /\ fs[target] = prev.result
    /\ (prev.outcome = "created") <=> (out = <<CreatedMsg(target, source)>>)
    /\ prev.outcome = "created" => fs[target] = NewIcon

C4_Witness ==
  /\ pc = "returned"
  /\ out = <<CreatedMsg(target, source)>>
  /\ prev.outcome = "created"
  /\ prev.source = source
  /\ prev.target = target
  /\ prev.input = fs0[source]
  /\ source # target
  /\ fs[target] = prev.result

\* C5 as stated: in every state during or after a call target holds either
\* what it held before the call (or is absent as before) or the complete new icon
C5_AtomicWrite ==
  calls > 0 =>
    \/ fs[target] = fs0[target]
    \/ img # Absent /\ fs[target] = NewIcon

\* s is the first frames of t
IsPrefix(s, t) == Len(s) <= Len(t) /\ s = SubSeq(t, 1, Len(s))

\* C5 amended: target is written in place, not atomically: it holds its
\* previous content until the save opens it, a partly written file while the
\* save writes, and the complete new icon once the save has closed it; when
\* the write fails part-way the previous content is gone and target is left
\* partly written, or is removed if the save had created it and the library
\* build removes such files
C5_InPlaceWrite ==
  calls > 0 =>
    /\ (target \notin writes) => fs[target] = fs0[target]
    /\ pc = "write" =>
         /\ fs[target].kind = "partial"
         /\ IsPrefix(fs[target].frames, NewIcon.frames)
    /\ (target \in writes /\ failure = "none" /\ pc # "write") => fs[target] = NewIcon
    /\ failure = "write_error" =>
         \/ fs[target].kind = "partial"
         \/ cleanup /\ ~Exists(fs0[target]) /\ fs[target] = Absent
    /\ (failure = "write_error" /\ Exists(fs0[target])) => fs[target].kind = "partial"

C5_Witness ==
  /\ pc = "raised"
  /\ failure = "write_error"
  /\ fs0[target] = Encode(512, 512)
  /\ fs[target].kind = "partial"
  /\ Len(fs[target].frames) = 2

\* C6: the confirmation names target and source and is printed only once the
\* write has completed; a call that fails prints no confirmation; a call that
\* wrote target and returned printed it exactly once
C6_ConfirmationAfterWrite ==
  /\ \A i \in 1..Len(out) : out[i].text = "created" =>
       /\ out[i].paths = <<target, source>>
       /\ target \in writes
       /\ fs[target] = NewIcon
       /\ failure = "none"
  /\ failure # "none" => out = <<>>
  /\ pc = "print" => (out = <<>> /\ fs[target] = NewIcon)
  /\ (ReturnedNormally /\ target \in writes) => out = <<CreatedMsg(target, source)>>
  /\ pc \in {"create", "write"} => out = <<>>

C6_Witness ==
  /\ pc = "returned"
  /\ out = <<CreatedMsg(target, source)>>
  /\ fs[target] = NewIcon
  /\ fs0[target] # NewIcon

\* C7: run directly, the script calls convert_to_ico once, with
\* 'icon-512.png' and 'app.ico'; it exits with status 0 when the conversion
\* succeeds and when 'icon-512.png' is missing, and with a failure status
\* only when a decode or write error propagated
C7_ScriptRun ==
  caller = "main" =>
    /\ calls <= 1
    /\ calls = 1 => (source = "icon-512.png" /\ target = "app.ico")
    /\ pc = "exited" =>
         /\ calls = 1
         /\ exitStatus \in {<<0>>, <<1>>}
         /\ ~Exists(fs0["icon-512.png"]) => exitStatus = <<0>>
         /\ fs["app.ico"] = NewIcon /\ target \in writes /\ failure = "none"
              => exitStatus = <<0>>
         /\ exitStatus = <<0>> <=> failure = "none"
         /\ exitStatus = <<1>> =>
              failure \in {"open_error", "load_error", "create_error", "write_error"}
    /\ pc # "exited" => exitStatus = <<>>

C7_Witness ==
  /\ caller = "main"
  /\ pc = "exited"
  /\ exitStatus = <<0>>
  /\ ~Exists(fs0["icon-512.png"])

\* the three ways a call can end
EndsNotFound ==
  /\ failure = "none"
  /\ out = <<NotFoundMsg(source)>>
  /\ reads = {}
  /\ writes = {}
  /\ fs = fs0

EndsCreated ==
  /\ failure = "none"
  /\ out = <<CreatedMsg(target, source)>>
  /\ writes = {target}
  /\ fs[target].kind = "ico"

EndsRaised ==
  /\ failure # "none"
  /\ out = <<>>

\* C8: every call ends in exactly one of three ways: 'not found' printed and
\* a normal return with no file access; target written, 'Created' printed and
\* a normal return; an error propagated and nothing printed.  No call prints
\* both messages or more than one line
C8_ThreeOutcomes ==
  /\ Len(out) <= 1
  /\ pc = "raised" <=> (calls > 0 /\ failure # "none" /\ pc \notin {"idle", "exited"})
  /\ Over =>
       /\ EndsNotFound \/ EndsCreated \/ EndsRaised
       /\ ~(EndsNotFound /\ EndsCreated)
       /\ ~(EndsNotFound /\ EndsRaised)
       /\ ~(EndsCreated /\ EndsRaised)

C8_Witness ==
  /\ pc = "raised"
  /\ failure = "create_error"
  /\ EndsRaised
  /\ fs = fs0

\* C9: when another process deletes source after the existence check passed
\* and before the open, the call ends with a propagated error, not with the
\* 'not found' message; it never opens target for writing and prints nothing
C9_DeletedAfterCheck ==
  raced =>
    /\ pc \in {"open", "raised", "idle", "exited"}
    /\ Exists(fs0[source])
    /\ out = <<>>
    /\ writes = {}
    /\ fs = [fs0 EXCEPT ![source] = Absent]
    /\ pc # "open" => failure = "open_error"
    /\ pc = "exited" => exitStatus = <<1>>

C9_Witness ==
  /\ raced
  /\ pc = "raised"
  /\ failure = "open_error"
  /\ source # target
  /\ Exists(fs[target])

\* C10: when source and target are different files the call never opens
\* source for writing and its content stays what it was, however the call
\* ends; target is the only file a call may change; when they are the same
\* file a successful call leaves the icon in place of the source
C10_OnlyTargetChanges ==
  calls > 0 =>
    /\ writes \subseteq {target}
    /\ \A p \in Paths : p # target => fs[p] = fs0[p]
    /\ source # target => (source \notin writes /\ fs[source] = fs0[source])
    /\ (source = target /\ ReturnedNormally /\ out = <<CreatedMsg(target, source)>>) =>
         /\ fs[source].kind = "ico"
         /\ fs[source] = NewIcon
         /\ img = fs0[source]

C10_Witness ==
  /\ pc = "returned"
  /\ source = target
  /\ out = <<CreatedMsg(target, source)>>
  /\ fs0[source].kind = "raster"
  /\ fs[source].kind = "ico"
  /\ prev.outcome = "created"
  /\ prev.source # prev.target
  /\ prev.input.kind = "raster"

====
